---- MODULE Spec2Model ----
(***************************************************************************)
(* Model of BrotherLabelPrinterDriver.print_label                          *)
(* (src/inventree_brother/brother_plugin.py).                              *)
(*                                                                         *)
(* The machine's settings are the persistent state.  A print request runs  *)
(* print_label: everything up to the transport loop is one step            *)
(* (PrintLabel), every iteration of the transport loop is one step         *)
(* (SendCopy or SendRaises), and the calls made to the image library, to   *)
(* the raster conversion and to the transport are logged in rotate_calls,  *)
(* convert_calls and send_calls.                                           *)
(***************************************************************************)
EXTENDS Integers, Sequences, FiniteSets, TLC

VARIABLES
    settings,       \* the machine's configuration, read with machine.get_setting
    driver,         \* the driver object's own attributes (self.MACHINE_SETTINGS)
    pc,             \* "idle", "send" (inside the for loop), "done" (print_label ended)
    kwargs,         \* the keyword arguments of the running request
    rendered,       \* what self.render_to_png(label, item) returned
    local,          \* the local variables of print_label
    rotate_calls,   \* calls of label_image.rotate
    convert_calls,  \* calls of brother_ql.conversion.convert (its params)
    send_calls,     \* calls of brother_ql.backends.helpers.send
    error           \* the exception print_label ended with (NoError: returned None)

vars == <<settings, driver, pc, kwargs, rendered, local,
          rotate_calls, convert_calls, send_calls, error>>

-----------------------------------------------------------------------------
(* Bounds of the model *)

\* largest copy count a request asks for
MaxCopies == 2

-----------------------------------------------------------------------------
(* Values *)

\* Python's None: an object without attributes
NoneValue == [none |-> TRUE]

NoError == [type |-> "", msg |-> ""]

\* a dict is a set of <<key, value>> pairs
EmptyDict == {}

HasKey(d, k) == \E p \in d : p[1] = k

\* dict.get(k, default)
Get(d, k, default) == IF HasKey(d, k) THEN (CHOOSE p \in d : p[1] = k)[2] ELSE default

\* brother_ql.labels.ALL_LABELS: the media catalog (an excerpt, in catalog order)
ALL_LABELS == <<
    [identifier |-> "12",    form_factor |-> "ENDLESS",
     dots_total |-> <<142, 0>>,   dots_printable |-> <<106, 0>>],
    [identifier |-> "62red", form_factor |-> "ENDLESS",
     dots_total |-> <<732, 0>>,   dots_printable |-> <<696, 0>>],
    [identifier |-> "17x54", form_factor |-> "DIE_CUT",
     dots_total |-> <<201, 636>>, dots_printable |-> <<165, 566>>],
    [identifier |-> "d24",   form_factor |-> "ROUND_DIE_CUT",
     dots_total |-> <<284, 271>>, dots_printable |-> <<236, 236>> ] >>

\* get_label_choices: the identifiers of the catalog
get_label_choices == { ALL_LABELS[k].identifier : k \in 1..Len(ALL_LABELS) }

\* get_rotation_choices: f"{degree}" for degree in [0, 90, 180, 270]
Str(degree) ==
    CASE degree = 0   -> "0"
      [] degree = 90  -> "90"
      [] degree = 180 -> "180"
      [] degree = 270 -> "270"

get_rotation_choices == { Str(degree) : degree \in {0, 90, 180, 270} }

\* int(s) of a decimal string
ParseInt(s) ==
    CASE s = "0"   -> 0
      [] s = "90"  -> 90
      [] s = "180" -> 180
      [] s = "270" -> 270

\* the "default" entries of self.MACHINE_SETTINGS
MACHINE_SETTINGS ==
    [MODEL |-> "PT-P750W", LABEL |-> "12", IP_ADDRESS |-> "", USB_DEVICE |-> "",
     AUTO_CUT |-> TRUE, ROTATION |-> "0", COMPRESSION |-> FALSE, HQ |-> TRUE]

\* the values the host may store in a setting
SettingValues(key) ==
    CASE key = "MODEL"       -> {"PT-P750W", "QL-800"}
      [] key = "LABEL"       -> get_label_choices \cup {"no-such-media"}
      [] key = "IP_ADDRESS"  -> {"", "192.168.1.20"}
      [] key = "USB_DEVICE"  -> {"", "0x04f9:0x209b/000M6Z401370"}
      [] key = "AUTO_CUT"    -> BOOLEAN
      [] key = "ROTATION"    -> get_rotation_choices
      [] key = "COMPRESSION" -> BOOLEAN
      [] key = "HQ"          -> BOOLEAN

\* an image: its pixel size, the angle its content has been turned by, and the
\* size the source content takes inside it (the whole image unless padded)
Image(w, h) == [size |-> <<w, h>>, turned |-> 0, inner |-> <<w, h>>]

NoImage == [size |-> <<0, 0>>, turned |-> 0, inner |-> <<0, 0>>]

\* the bitmaps render_to_png may return: smaller and larger than the die-cut
\* printable areas in each dimension
RenderedImages == { Image(w, h) : w \in {100, 800}, h \in {100, 800} }

\* the keyword arguments a request may carry
RequestKwargs ==
    {EmptyDict, {<<"printing_options", EmptyDict>>}}
    \cup { {<<"printing_options", {<<"copies", c>>}>>} : c \in (-1)..MaxCopies }

\* the exceptions the transport may raise
TransportErrors ==
    { [type |-> "OSError", msg |-> "No route to host"],
      [type |-> "ValueError", msg |-> "Device not found"] }

-----------------------------------------------------------------------------
(* The steps of print_label *)

\* options = kwargs.get("printing_options", {}); int(options.get("copies", 1))
NCopies(kw) == Get(Get(kw, "printing_options", EmptyDict), "copies", 1)

\* for label_specs in ALL_LABELS: if label_specs.identifier == media_type: ...
RECURSIVE ScanLabels(_, _, _)
ScanLabels(k, media_type, media_specs) ==
    IF k > Len(ALL_LABELS) THEN media_specs
    ELSE ScanLabels(k + 1, media_type,
                    IF ALL_LABELS[k].identifier = media_type
                    THEN ALL_LABELS[k] ELSE media_specs)

LookupMedia(media_type) == ScanLabels(1, media_type, NoneValue)

\* a variant that forgets the 90 degree offset of the raster orientation
EffectiveRotation_noOffset(setting) == ParseInt(setting) % 360

\* rotation = int(ROTATION) + 90; rotation = rotation % 360
EffectiveRotation(setting) == (ParseInt(setting) + 90) % 360

\* Image.rotate(angle, expand=True) for a multiple of 90 degrees
Rotate(image, angle) ==
    [size   |-> IF angle \in {90, 270}
                THEN <<image.size[2], image.size[1]>> ELSE image.size,
     turned |-> (image.turned + angle) % 360,
     inner  |-> IF angle \in {90, 270}
                THEN <<image.inner[2], image.inner[1]>> ELSE image.inner]

\* if rotation in [90, 180, 270]: label_image = label_image.rotate(rotation, expand=True)
RotateLabel(label_image, rotation) ==
    IF rotation \in {90, 180, 270}
    THEN [image |-> Rotate(label_image, rotation),
          calls |-> << [angle |-> rotation, expand |-> TRUE] >>]
    ELSE [image |-> label_image, calls |-> << >>]

\* round(n / d), halves to the even neighbour
Round(n, d) ==
    LET q == n \div d
        r == n % d
    IN  IF 2 * r < d THEN q
        ELSE IF 2 * r > d THEN q + 1
        ELSE IF q % 2 = 0 THEN q ELSE q + 1

\* ImageOps.contain: the size of the image scaled to fit in size, aspect ratio kept
Contain(image, size) ==
    LET w == image.size[1]
        h == image.size[2]
    IN  IF w * size[2] = size[1] * h THEN size
        ELSE IF w * size[2] > size[1] * h
             THEN <<size[1], Round(h * size[1], w)>>
             ELSE <<Round(w * size[2], h), size[2]>>

\* ImageOps.pad(image, size, color="white"): the scaled image on a canvas of size
Pad(image, size) ==
    [size |-> size, turned |-> image.turned, inner |-> Contain(image, size)]

\* a variant that treats an unresolved media like a continuous roll
ResizeForMedia_lenient(label_image, media_specs, media_type) ==
    IF "form_factor" \in DOMAIN media_specs
       /\ media_specs.form_factor \in {"DIE_CUT", "ROUND_DIE_CUT"}
    THEN [raised |-> NoError,
          printable_image |-> Pad(label_image, media_specs.dots_printable)]
    ELSE [raised |-> NoError, printable_image |-> label_image]

\* a variant that pads rectangular die-cut labels only
ResizeForMedia_dieCutOnly(label_image, media_specs, media_type) ==
    IF "form_factor" \notin DOMAIN media_specs
    THEN [raised |-> [type |-> "AttributeError",
                      msg |-> "Could not find specifications of label media type '"
                              \o media_type \o "'"],
          printable_image |-> NoImage]
    ELSE IF media_specs.form_factor \in {"DIE_CUT"}
    THEN [raised |-> NoError,
          printable_image |-> Pad(label_image, media_specs.dots_printable)]
    ELSE [raised |-> NoError, printable_image |-> label_image]

\* a variant that pads whatever the form factor is
ResizeForMedia_padAll(label_image, media_specs, media_type) ==
    IF "form_factor" \notin DOMAIN media_specs
    THEN [raised |-> [type |-> "AttributeError",
                      msg |-> "Could not find specifications of label media type '"
                              \o media_type \o "'"],
          printable_image |-> NoImage]
    ELSE [raised |-> NoError,
          printable_image |-> Pad(label_image, media_specs.dots_printable)]

\* the try block: pad for die-cut media, else leave the image as it is;
\* an AttributeError is raised again with the media type in its message
ResizeForMedia(label_image, media_specs, media_type) ==
    IF "form_factor" \notin DOMAIN media_specs
    THEN [raised |-> [type |-> "AttributeError",
                      msg |-> "Could not find specifications of label media type '"
                              \o media_type \o "'"],
          printable_image |-> NoImage]
    ELSE IF media_specs.form_factor \in {"DIE_CUT", "ROUND_DIE_CUT"}
    THEN [raised |-> NoError,
          printable_image |-> Pad(label_image, media_specs.dots_printable)]
    ELSE [raised |-> NoError, printable_image |-> label_image]

\* a variant that never selects the red plane
IsRed_never(media_type) == FALSE

\* if media_type in ["62red"]: red = True else: red = False
IsRed(media_type) == media_type \in {"62red"}

\* params = {...}
ConvertParams(model, printable_image, media_type, cut, compress, hq, red) ==
    [qlr |-> [model |-> model], images |-> <<printable_image>>, label |-> media_type,
     cut |-> cut, rotate |-> 0, compress |-> compress, hq |-> hq, red |-> red]

\* convert(**params): the instructions are a function of the parameters
Convert(params) == [instructions_for |-> params]

\* a variant that checks USB first, then the IP address
SelectBackend_usbFirst(ip_address, usb_device) ==
    IF usb_device # ""
    THEN [raised |-> NoError,
          printer_id |-> "usb://" \o usb_device, backend_id |-> "pyusb"]
    ELSE IF ip_address # ""
    THEN [raised |-> NoError,
          printer_id |-> "tcp://" \o ip_address, backend_id |-> "network"]
    ELSE [raised |-> [type |-> "ValueError",
                      msg |-> "No IP address or USB device defined."],
          printer_id |-> "", backend_id |-> ""]

\* a variant that goes on with the empty identifiers instead of raising
SelectBackend_noRaise(ip_address, usb_device) ==
    IF ip_address # ""
    THEN [raised |-> NoError,
          printer_id |-> "tcp://" \o ip_address, backend_id |-> "network"]
    ELSE IF usb_device # ""
    THEN [raised |-> NoError,
          printer_id |-> "usb://" \o usb_device, backend_id |-> "pyusb"]
    ELSE [raised |-> NoError, printer_id |-> "", backend_id |-> ""]

\* check IP address first, then USB
SelectBackend(ip_address, usb_device) ==
    IF ip_address # ""
    THEN [raised |-> NoError,
          printer_id |-> "tcp://" \o ip_address, backend_id |-> "network"]
    ELSE IF usb_device # ""
    THEN [raised |-> NoError,
          printer_id |-> "usb://" \o usb_device, backend_id |-> "pyusb"]
    ELSE [raised |-> [type |-> "ValueError",
                      msg |-> "No IP address or USB device defined."],
          printer_id |-> "", backend_id |-> ""]

\* the locals of print_label before any of them is bound
NoLocals ==
    [n_copies |-> 0, label_image |-> NoImage, model |-> "", ip_address |-> "",
     usb_device |-> "", media_type |-> "", media_specs |-> NoneValue,
     rotation |-> 0, printable_image |-> NoImage, red |-> FALSE,
     instructions |-> NoneValue, printer_id |-> "", backend_id |-> "", i |-> 0]

-----------------------------------------------------------------------------
(* Actions *)

Init ==
    /\ settings = MACHINE_SETTINGS
    /\ driver = [MACHINE_SETTINGS |-> MACHINE_SETTINGS]
    /\ pc = "idle"
    /\ kwargs = EmptyDict
    /\ rendered = NoImage
    /\ local = NoLocals
    /\ rotate_calls = << >>
    /\ convert_calls = << >>
    /\ send_calls = << >>
    /\ error = NoError

\* the host stores a new value in one of the machine's settings
SetSetting ==
    /\ pc = "idle"
    /\ \E key \in DOMAIN settings : \E value \in SettingValues(key) :
          /\ settings[key] # value
          /\ settings' = [settings EXCEPT ![key] = value]
    /\ UNCHANGED <<driver, pc, kwargs, rendered, local,
                   rotate_calls, convert_calls, send_calls, error>>

\* a variant that stores the effective rotation back into the settings
SettingsAfterPrint_storesRotation(s, rotation) == [s EXCEPT !.ROTATION = Str(rotation)]

\* what print_label writes to the machine's settings: nothing
SettingsAfterPrint(s, rotation) == s

\* print_label from its entry up to the transport loop
PrintLabel ==
    /\ pc = "idle"
    /\ \E kw \in RequestKwargs, image \in RenderedImages :
        LET n_copies     == NCopies(kw)
            model        == settings.MODEL
            ip_address   == settings.IP_ADDRESS
            usb_device   == settings.USB_DEVICE
            media_type   == settings.LABEL
            media_specs  == LookupMedia(media_type)
            rotation     == EffectiveRotation(settings.ROTATION)
            rotated      == RotateLabel(image, rotation)
            resized      == ResizeForMedia(rotated.image, media_specs, media_type)
            red          == IsRed(media_type)
            params       == ConvertParams(model, resized.printable_image, media_type,
                                          settings.AUTO_CUT, settings.COMPRESSION,
                                          settings.HQ, red)
            backend      == SelectBackend(ip_address, usb_device)
            bound        == [NoLocals EXCEPT
                                !.n_copies = n_copies, !.label_image = rotated.image,
                                !.model = model, !.ip_address = ip_address,
                                !.usb_device = usb_device, !.media_type = media_type,
                                !.media_specs = media_specs, !.rotation = rotation]
        IN  /\ kwargs' = kw
            /\ rendered' = image
            /\ rotate_calls' = rotated.calls
            /\ send_calls' = << >>
            /\ settings' = SettingsAfterPrint(settings, rotation)
            /\ IF resized.raised # NoError
               THEN /\ local' = bound
                    /\ convert_calls' = << >>
                    /\ error' = resized.raised
                    /\ pc' = "done"
               ELSE /\ convert_calls' = <<params>>
                    /\ IF backend.raised # NoError
                       THEN /\ local' = [bound EXCEPT
                                   !.printable_image = resized.printable_image,
                                   !.red = red, !.instructions = Convert(params)]
                            /\ error' = backend.raised
                            /\ pc' = "done"
                       ELSE /\ local' = [bound EXCEPT
                                   !.printable_image = resized.printable_image,
                                   !.red = red, !.instructions = Convert(params),
                                   !.printer_id = backend.printer_id,
                                   !.backend_id = backend.backend_id]
                            /\ error' = NoError
                            /\ pc' = "send"
    /\ UNCHANGED driver

\* the call send(instructions=..., printer_identifier=..., backend_identifier=...,
\* blocking=True) of one loop iteration, with the exception it raised
SendCall(raised) ==
    [instructions |-> local.instructions, printer_identifier |-> local.printer_id,
     backend_identifier |-> local.backend_id, blocking |-> TRUE, raised |-> raised]

\* a variant whose range is one too long
InRange_inclusive(i, n_copies) == i <= n_copies

\* the loop's range: for _i in range(n_copies)
InRange(i, n_copies) == i < n_copies

\* one loop iteration whose send returns
SendCopy ==
    /\ pc = "send"
    /\ InRange(local.i, local.n_copies)
    /\ send_calls' = Append(send_calls, SendCall(NoError))
    /\ local' = [local EXCEPT !.i = @ + 1]
    /\ UNCHANGED <<settings, driver, pc, kwargs, rendered,
                   rotate_calls, convert_calls, error>>

\* a variant that swallows the exception and goes on with the next copy
AfterSendRaises_goesOn(e) == [pc |-> "send", error |-> NoError]

\* where print_label goes when send raises e: the exception leaves print_label
AfterSendRaises(e) == [pc |-> "done", error |-> e]

\* one loop iteration whose send raises
SendRaises ==
    /\ pc = "send"
    /\ InRange(local.i, local.n_copies)
    /\ \E e \in TransportErrors :
          /\ send_calls' = Append(send_calls, SendCall(e))
          /\ pc' = AfterSendRaises(e).pc
          /\ error' = AfterSendRaises(e).error
    /\ local' = [local EXCEPT !.i = @ + 1]
    /\ UNCHANGED <<settings, driver, kwargs, rendered, rotate_calls, convert_calls>>

\* the loop is exhausted: print_label returns None
LoopExit ==
    /\ pc = "send"
    /\ ~InRange(local.i, local.n_copies)
    /\ pc' = "done"
    /\ UNCHANGED <<settings, driver, kwargs, rendered, local,
                   rotate_calls, convert_calls, send_calls, error>>

\* the caller has the result; the frame of print_label is gone
Return ==
    /\ pc = "done"
    /\ pc' = "idle"
    /\ kwargs' = EmptyDict
    /\ rendered' = NoImage
    /\ local' = NoLocals
    /\ rotate_calls' = << >>
    /\ convert_calls' = << >>
    /\ send_calls' = << >>
    /\ error' = NoError
    /\ UNCHANGED <<settings, driver>>

Next ==
    \/ SetSetting
    \/ PrintLabel
    \/ SendCopy
    \/ SendRaises
    \/ LoopExit
    \/ Return

Spec == Init /\ [][Next]_vars

-----------------------------------------------------------------------------
(* Properties *)

Known(identifier) == identifier \in get_label_choices

\* the catalog entry of a known identifier
SpecsOf(identifier) ==
    CHOOSE specs \in { ALL_LABELS[k] : k \in 1..Len(ALL_LABELS) } :
        specs.identifier = identifier

\* the copy count a request asks for: 1 unless its printing options give one
Requested(kw) ==
    IF HasKey(kw, "printing_options") /\ HasKey(Get(kw, "printing_options", {}), "copies")
    THEN Get(Get(kw, "printing_options", {}), "copies", 0)
    ELSE 1

Running == pc # "idle"

SendFailed(k) == send_calls[k].raised # NoError

\* C1: a request whose LABEL setting matches no catalog entry ends with the
\* configuration error naming that identifier, without a conversion call and
\* without a transport call, whatever the other settings and the copy count are.
C1_UnknownMediaFails ==
    (Running /\ ~Known(settings.LABEL)) =>
        /\ pc = "done"
        /\ error.type = "AttributeError"
        /\ error.msg = "Could not find specifications of label media type '"
                       \o settings.LABEL \o "'"
        /\ convert_calls = << >>
        /\ send_calls = << >>

\* an unknown media with a destination configured, several copies asked for
C1_Witness ==
    /\ pc = "done"
    /\ settings.LABEL = "no-such-media"
    /\ settings.IP_ADDRESS # ""
    /\ local.n_copies = 2
    /\ error.msg = "Could not find specifications of label media type 'no-such-media'"

\* C2: a request made while IP_ADDRESS and USB_DEVICE are both empty ends with a
\* configuration error (the missing-destination error when the media resolves,
\* the unresolved-media error otherwise) and makes no transport call, for every
\* copy count.
C2_NoDestinationFails ==
    (Running /\ settings.IP_ADDRESS = "" /\ settings.USB_DEVICE = "") =>
        /\ pc = "done"
        /\ send_calls = << >>
        /\ error.type \in {"ValueError", "AttributeError"}
        /\ Known(settings.LABEL) =>
              error = [type |-> "ValueError",
                       msg |-> "No IP address or USB device defined."]

\* no destination, a resolvable media, two copies asked for: the error comes
\* after the conversion call and before any transport call
C2_Witness ==
    /\ pc = "done"
    /\ settings.IP_ADDRESS = "" /\ settings.USB_DEVICE = ""
    /\ Known(settings.LABEL)
    /\ local.n_copies = 2
    /\ Len(convert_calls) = 1
    /\ error.msg = "No IP address or USB device defined."

\* C3: with a resolvable media, a configured destination and N >= 0 copies asked
\* for (1 when no printing option gives a count), a request none of whose
\* transport calls failed ends without error after exactly N transport calls, all
\* blocking, all carrying the instructions of the single conversion call and the
\* same destination and backend; a call starts only after the ones before it returned.
C3_ExactlyNSends ==
    /\ Running => /\ Len(send_calls) = local.i
                  /\ \A k \in 1..(Len(send_calls) - 1) : ~SendFailed(k)
    /\ ( /\ pc = "done"
         /\ Known(settings.LABEL)
         /\ settings.IP_ADDRESS # "" \/ settings.USB_DEVICE # ""
         /\ Requested(kwargs) >= 0
         /\ \A k \in 1..Len(send_calls) : ~SendFailed(k) )
       => /\ error = NoError
          /\ Len(send_calls) = Requested(kwargs)
          /\ Len(convert_calls) = 1
          /\ \A k \in 1..Len(send_calls) :
                /\ send_calls[k].instructions = Convert(convert_calls[1])
                /\ send_calls[k].printer_identifier = send_calls[1].printer_identifier
                /\ send_calls[k].backend_identifier = send_calls[1].backend_identifier
                /\ send_calls[k].printer_identifier # ""
                /\ send_calls[k].blocking = TRUE

\* the largest copy count, all copies sent
C3_Witness ==
    /\ pc = "done"
    /\ error = NoError
    /\ Requested(kwargs) = MaxCopies
    /\ Len(send_calls) = MaxCopies

\* a request without printing options sends one copy
C3_WitnessDefault ==
    /\ pc = "done"
    /\ error = NoError
    /\ kwargs = EmptyDict
    /\ Len(send_calls) = 1

\* C4: when the transport call of copy k raises, print_label ends with that very
\* exception; the failed call is the last one (no retry, no later copy), so k
\* calls were made in all, k is at most the copy count, and the k-1 calls before
\* it stay made.
C4_FailureStopsTheLoop ==
    \A k \in 1..Len(send_calls) :
        SendFailed(k) =>
            /\ pc = "done"
            /\ k = Len(send_calls)
            /\ k <= local.n_copies
            /\ error = send_calls[k].raised
            /\ error \in TransportErrors
            /\ \A j \in 1..(k - 1) : ~SendFailed(j)

\* the first copy was sent, the second failed, with copies left to send
C4_Witness ==
    /\ pc = "done"
    /\ Len(send_calls) = 2
    /\ ~SendFailed(1)
    /\ SendFailed(2)
    /\ error = send_calls[2].raised
    /\ local.n_copies >= 2

\* C5: for a ROTATION setting r the rotation applied is (r + 90) mod 360: one
\* rotate call by that angle when it is 90, 180 or 270, no rotate call when it
\* is 0 (r = 270); the conversion call is always given rotate = 0.
C5_EffectiveRotation ==
    Running =>
        /\ \A r \in {0, 90, 180, 270} :
              settings.ROTATION = Str(r) =>
                 /\ local.rotation = (r + 90) % 360
                 /\ r # 270 => /\ rotate_calls = << [angle |-> (r + 90) % 360,
                                                     expand |-> TRUE] >>
                               /\ local.label_image.turned = (r + 90) % 360
                 /\ r = 270 => /\ local.rotation = 0
                               /\ rotate_calls = << >>
                               /\ local.label_image = rendered
        /\ \A k \in 1..Len(convert_calls) : convert_calls[k].rotate = 0

\* ROTATION 270: no rotate call, and the conversion call was reached
C5_Witness ==
    /\ Running
    /\ settings.ROTATION = "270"
    /\ rotate_calls = << >>
    /\ Len(convert_calls) = 1

\* ROTATION 180: the image was rotated by 270
C5_WitnessRotated ==
    /\ Running
    /\ settings.ROTATION = "180"
    /\ Len(rotate_calls) = 1
    /\ rotate_calls[1].angle = 270
    /\ Len(convert_calls) = 1

\* C6: for die-cut and round die-cut media the image given to the conversion
\* call has exactly the media's printable-dots size, for every source size and
\* every rotation.
C6_DieCutExactSize ==
    \A k \in 1..Len(convert_calls) :
        (Known(settings.LABEL)
         /\ SpecsOf(settings.LABEL).form_factor \in {"DIE_CUT", "ROUND_DIE_CUT"})
        => /\ Len(convert_calls[k].images) = 1
           /\ convert_calls[k].images[1].size = SpecsOf(settings.LABEL).dots_printable

\* a source wider and lower than the die-cut label's printable area
C6_Witness ==
    /\ Len(convert_calls) = 1
    /\ settings.LABEL = "17x54"
    /\ local.label_image.size[1] > 165
    /\ local.label_image.size[2] < 566
    /\ convert_calls[1].images[1].size = <<165, 566>>

\* a source smaller than the round die-cut label's printable area
C6_WitnessRound ==
    /\ Len(convert_calls) = 1
    /\ settings.LABEL = "d24"
    /\ rendered.size = <<100, 100>>
    /\ convert_calls[1].images[1].size = <<236, 236>>

\* C7: for continuous-roll media the image given to the conversion call is the
\* source turned by the effective rotation, neither resized nor padded: h x w
\* for a w x h source when the rotation is 90 or 270, w x h when it is 0 or 180.
C7_ContinuousPassThrough ==
    \A k \in 1..Len(convert_calls) :
        (Known(settings.LABEL)
         /\ SpecsOf(settings.LABEL).form_factor \notin {"DIE_CUT", "ROUND_DIE_CUT"})
        => LET image == convert_calls[k].images[1]
               w == rendered.size[1]
               h == rendered.size[2]
           IN  /\ image.size = IF local.rotation \in {90, 270} THEN <<h, w>> ELSE <<w, h>>
               /\ image.inner = image.size
               /\ image.turned = local.rotation

\* a source of 100 x 800 turned by 90 on the 12 mm roll: 800 dots wide, beyond
\* the 106 printable dots
C7_Witness ==
    /\ Len(convert_calls) = 1
    /\ settings.LABEL = "12"
    /\ local.rotation = 90
    /\ rendered.size = <<100, 800>>
    /\ convert_calls[1].images[1].size = <<800, 100>>
    /\ convert_calls[1].images[1].size[1] > SpecsOf("12").dots_printable[1]

\* C8: the red parameter of the conversion call is true exactly when the LABEL
\* setting is "62red".
C8_RedFlag ==
    \A k \in 1..Len(convert_calls) :
        /\ convert_calls[k].red \in BOOLEAN
        /\ convert_calls[k].red <=> (settings.LABEL = "62red")
        /\ convert_calls[k].label = settings.LABEL

\* the conversion call of a request on "62red"
C8_Witness ==
    /\ Len(convert_calls) = 1
    /\ settings.LABEL = "62red"
    /\ convert_calls[1].red

\* the conversion call of a request on another continuous roll
C8_WitnessBlack ==
    /\ Len(convert_calls) = 1
    /\ settings.LABEL = "12"
    /\ ~convert_calls[1].red

\* nothing of a request is left once it has returned
FrameGone ==
    /\ kwargs = EmptyDict
    /\ rendered = NoImage
    /\ local = NoLocals
    /\ rotate_calls = << >>
    /\ convert_calls = << >>
    /\ send_calls = << >>
    /\ error = NoError

\* C9: no step of print_label changes the machine's settings or the driver's
\* own state (only the host, between requests, changes a setting), and between
\* requests nothing but the settings and the driver remains, so a request works
\* from the current settings and its own inputs alone.
C9_SettingsUntouched ==
    [][ /\ (Running \/ pc' # "idle") => (settings' = settings /\ driver' = driver)
        /\ driver' = driver
        /\ pc' = "idle" => FrameGone' ]_vars

\* a request in its transport loop under settings the host has changed, the
\* driver's defaults still as constructed
C9_Witness ==
    /\ pc = "send"
    /\ Len(send_calls) = 1
    /\ settings.ROTATION = "90"
    /\ settings.LABEL = "d24"
    /\ settings.AUTO_CUT = FALSE
    /\ convert_calls[1].cut = FALSE
    /\ driver.MACHINE_SETTINGS.ROTATION = "0"

\* C10: the network address has precedence: with IP_ADDRESS set every transport
\* call goes to "tcp://<ip>" on backend "network", whatever USB_DEVICE is;
\* "usb://<id>" on backend "pyusb" is used only with IP_ADDRESS empty and
\* USB_DEVICE set; no call has an empty destination or backend.
C10_NetworkFirst ==
    \A k \in 1..Len(send_calls) :
        LET call == send_calls[k]
        IN  /\ settings.IP_ADDRESS # "" =>
                  /\ call.printer_identifier = "tcp://" \o settings.IP_ADDRESS
                  /\ call.backend_identifier = "network"
            /\ (call.backend_identifier = "pyusb" \/ call.printer_identifier = "usb://" \o settings.USB_DEVICE) =>
                  /\ settings.IP_ADDRESS = ""
                  /\ settings.USB_DEVICE # ""
                  /\ call.printer_identifier = "usb://" \o settings.USB_DEVICE
                  /\ call.backend_identifier = "pyusb"
            /\ call.backend_identifier \in {"network", "pyusb"}
            /\ call.printer_identifier \notin {"", "tcp://", "usb://"}

\* both IP_ADDRESS and USB_DEVICE set: the call went to the network address
C10_Witness ==
    /\ Len(send_calls) >= 1
    /\ settings.IP_ADDRESS = "192.168.1.20"
    /\ settings.USB_DEVICE # ""
    /\ send_calls[1].printer_identifier = "tcp://192.168.1.20"
    /\ send_calls[1].backend_identifier = "network"

\* only USB_DEVICE set: the call went to the USB device
C10_WitnessUsb ==
    /\ Len(send_calls) >= 1
    /\ settings.IP_ADDRESS = ""
    /\ send_calls[1].printer_identifier = "usb://0x04f9:0x209b/000M6Z401370"
    /\ send_calls[1].backend_identifier = "pyusb"

====
